---- MODULE Spec2Model ----
(***************************************************************************)
(* Model of the TidyDNS webhook provider: the zone provider (a cache of   *)
(* the zone list served by a worker goroutine over channels) and the      *)
(* provider operations built on it.  Strings are sequences of one-        *)
(* character strings so that suffix, trim and concatenation are computed. *)
(***************************************************************************)
EXTENDS Integers, Sequences, FiniteSets, TLC

VARIABLES
    wpc,        \* newZoneProvider / worker goroutine position
    zones,      \* the worker's variable `zones`
    provider,   \* chan chan []Zone, capacity 1: the queued responder channels
    responder,  \* per caller: its responder channel, capacity 1
    tickC,      \* ticker.C holds a tick
    nticks,     \* ticks fired so far
    gz,         \* per caller: the position of its getZones call and its result
    lastGood,   \* history: list of the most recent successful ListZones call
    lastOk,     \* history: the most recent ListZones call succeeded
    fetched,    \* history: every list a ListZones call has returned
    epoch,      \* history: number of completed refresh ListZones calls
    anyFail,    \* history: some refresh ListZones call has failed
    apc,        \* ApplyChanges: position of the calling goroutine
    changes,    \* ApplyChanges: the plan.Changes argument
    azones,     \* ApplyChanges: its local `zones`
    rzones,     \* allRecords: its local `zones`
    zi,         \* allRecords: index of the zone listed next
    allRecords, \* allRecords / ApplyChanges: the records fetched
    tasks,      \* the goroutines spawned, and the inline updateOld deletions
    retErr,     \* ApplyChanges: an error was returned
    db,         \* the records Tidy holds
    listLog,    \* history: the ListRecords calls made, in order
    reads,      \* history: getZones calls made by this ApplyChanges
    initial,    \* history: the list of the first ListZones call, once made
    firstGot,   \* history: the first list the worker has sent to a caller
    returnedEpoch, \* history: the latest refresh a returned call has seen
    floor,      \* history: returnedEpoch when the call a caller is in began
    rpc,        \* Records: position of the calling goroutine
    recResult,  \* Records: what it returned
    parg,       \* the arguments of a call of one of the pure functions
    pres        \* the result of that call

zvars == <<wpc, zones, provider, responder, tickC, nticks, gz,
           lastGood, lastOk, fetched, epoch, anyFail>>

avars == <<apc, changes, azones, rzones, zi, allRecords, tasks, retErr,
           db, listLog, reads>>

hvars == <<initial, firstGot, returnedEpoch, floor>>

rvars == <<rpc, recResult>>

pvars == <<parg, pres>>

vars == <<zvars, avars, hvars, rvars, pvars>>

----------------------------------------------------------------------------
(* Bounds *)

MaxTicks == 2

\* TTLs up to MaxTTL are given to restrictTTL.
MaxTTL == 301

----------------------------------------------------------------------------
(* tidydns.Zone values and the results a ListZones call can have *)

Z1 == [ID |-> "1", Name |-> <<"z">>]
Z2 == [ID |-> "2", Name |-> <<"y", ".", "z">>]

ZoneLists == { <<>>, <<Z1>>, <<Z1, Z2>> }

\* ListZones returns its slice together with the error: on a failed request
\* the slice is the empty one made before the request, or what had been
\* decoded of the body when decoding failed.
ListZonesResults ==
    { [zones |-> l, ok |-> TRUE] : l \in ZoneLists } \cup
    { [zones |-> l, ok |-> FALSE] : l \in { <<>>, <<Z1>> } }

DomainFilterCallers == { "gdf1", "gdf2" }
Callers == DomainFilterCallers \cup { "apply", "records" }

IdleCall == [pc |-> "idle", got |-> <<>>, startEpoch |-> 0,
             afterFail |-> FALSE, servedEpoch |-> 0]

----------------------------------------------------------------------------
(* strings: the functions of package strings and strconv that are used *)

Range(seq) == { seq[i] : i \in DOMAIN seq }

Dot == "."
Quote == "\""

HasSuffix(s, suffix) ==
    /\ Len(suffix) <= Len(s)
    /\ SubSeq(s, Len(s) - Len(suffix) + 1, Len(s)) = suffix

CutSuffix(s, suffix) ==
    IF HasSuffix(s, suffix) THEN SubSeq(s, 1, Len(s) - Len(suffix)) ELSE s

RECURSIVE TrimLeft(_, _)
TrimLeft(s, c) ==
    IF s # <<>> /\ Head(s) = c THEN TrimLeft(Tail(s), c) ELSE s

RECURSIVE TrimRight(_, _)
TrimRight(s, c) ==
    IF s # <<>> /\ s[Len(s)] = c THEN TrimRight(SubSeq(s, 1, Len(s) - 1), c)
    ELSE s

Trim(s, c) == TrimRight(TrimLeft(s, c), c)

Digits == <<"0", "1", "2", "3", "4", "5", "6", "7", "8", "9">>

RECURSIVE Itoa(_)
Itoa(n) ==
    IF n < 0 THEN <<"-">> \o Itoa(0 - n)
    ELSE IF n < 10 THEN <<Digits[n + 1]>>
    ELSE Itoa(n \div 10) \o <<Digits[(n % 10) + 1]>>

----------------------------------------------------------------------------
(* provider.go: the pure functions *)

\* The FQDN of a Tidy record, as computed in findRecords and parseTidyRecord.
RecordDNSName(record) ==
    IF record.Name = <<Dot>> THEN record.ZoneName
    ELSE record.Name \o <<Dot>> \o record.ZoneName

\* A findRecords that compares with the destination createRecord would send.
RecordMatchesNormalized(record, endpoint, target) ==
    /\ (IF record.Name = <<".">> THEN record.ZoneName
        ELSE record.Name \o <<".">> \o record.ZoneName) = endpoint.DNSName
    /\ record.Type = endpoint.RecordType
    /\ record.Destination =
         (LET trimmed == Trim(target, "\"") IN
          IF endpoint.RecordType = "CNAME" THEN trimmed \o <<".">>
          ELSE trimmed)

\* The condition under which findRecords appends a record for a target.
RecordMatches(record, endpoint, target) ==
    /\ RecordDNSName(record) = endpoint.DNSName
    /\ record.Type = endpoint.RecordType
    /\ record.Destination = target

\* findRecords: for each target in order, every matching record in order.
RECURSIVE findRecordsFrom(_, _, _)
findRecordsFrom(records, endpoint, ti) ==
    IF ti > Len(endpoint.Targets) THEN <<>>
    ELSE SelectSeq(records,
                   LAMBDA r : RecordMatches(r, endpoint, endpoint.Targets[ti]))
         \o findRecordsFrom(records, endpoint, ti + 1)

\* A findRecords that takes every record of the name and type of the endpoint.
findRecordsAnyTarget(records, endpoint) ==
    SelectSeq(records,
              LAMBDA r : /\ RecordDNSName(r) = endpoint.DNSName
                         /\ r.Type = endpoint.RecordType)

findRecords(records, endpoint) == findRecordsFrom(records, endpoint, 1)

\* A clamp that does not let 0 through.
restrictTTLNoZero(ttl) == IF ttl < 300 THEN 300 ELSE ttl

restrictTTL(ttl) == IF ttl # 0 /\ ttl < 300 THEN 300 ELSE ttl

\* A tidyfyName that maps a name of no zone to itself, in the zone "0".
RECURSIVE tidyfyNameFromDefault(_, _, _)
tidyfyNameFromDefault(zs, name, i) ==
    IF i > Len(zs) THEN [name |-> name, zoneID |-> "0"]
    ELSE IF ~HasSuffix(name, zs[i].Name)
         THEN tidyfyNameFromDefault(zs, name, i + 1)
    ELSE LET cutted == CutSuffix(name, zs[i].Name) IN
         IF cutted # <<>>
         THEN [name |-> CutSuffix(cutted, <<Dot>>), zoneID |-> zs[i].ID]
         ELSE [name |-> <<Dot>>, zoneID |-> zs[i].ID]

\* tidyfyName: the first zone whose name is a suffix of the name decides.
RECURSIVE tidyfyNameFrom(_, _, _)
tidyfyNameFrom(zs, name, i) ==
    IF i > Len(zs) THEN [name |-> <<>>, zoneID |-> "0"]
    ELSE IF ~HasSuffix(name, zs[i].Name) THEN tidyfyNameFrom(zs, name, i + 1)
    ELSE LET cutted == CutSuffix(name, zs[i].Name) IN
         IF cutted # <<>>
         THEN [name |-> CutSuffix(cutted, <<Dot>>), zoneID |-> zs[i].ID]
         ELSE [name |-> <<Dot>>, zoneID |-> zs[i].ID]

\* A tidyfyName that passes over the first zone of the list.
tidyfyNameSecond(zs, name) == tidyfyNameFrom(zs, name, 2)

tidyfyName(zs, name) == tidyfyNameFrom(zs, name, 1)

\* A destination that keeps the double quotes of the target.
CreateDestinationQuoted(endpoint, target) ==
    IF endpoint.RecordType = "CNAME" THEN target \o <<Dot>> ELSE target

\* createRecord: the destination sent for a target.
CreateDestination(endpoint, target) ==
    LET trimmed == Trim(target, Quote) IN
    IF endpoint.RecordType = "CNAME" THEN trimmed \o <<Dot>> ELSE trimmed

\* createRecord: the record built for the target at index ti.
NewRec(endpoint, dnsName, ti) ==
    [Type |-> endpoint.RecordType,
     Name |-> dnsName,
     Description |-> <<>>,
     Destination |-> CreateDestination(endpoint, endpoint.Targets[ti]),
     TTL |-> Itoa(restrictTTL(endpoint.RecordTTL))]

\* json.Number.Int64, that is strconv.ParseInt(s, 10, 64): an optional sign
\* and one or more decimal digits; anything else is an error.  The values
\* listed stay far below the 64 bit range.
DigitValue(c) == CHOOSE v \in 0..9 : Digits[v + 1] = c

RECURSIVE DigitsValue(_)
DigitsValue(ds) ==
    IF ds = <<>> THEN 0
    ELSE 10 * DigitsValue(SubSeq(ds, 1, Len(ds) - 1)) + DigitValue(ds[Len(ds)])

ParseInt(str) ==
    LET signed == str # <<>> /\ Head(str) \in { "+", "-" }
        ds == IF signed THEN Tail(str) ELSE str
    IN IF ds = <<>> \/ \E i \in DOMAIN ds : ds[i] \notin { Digits[k] : k \in 1..10 }
       THEN [ok |-> FALSE, val |-> 0]
       ELSE [ok |-> TRUE,
             val |-> IF signed /\ Head(str) = "-" THEN 0 - DigitsValue(ds)
                     ELSE DigitsValue(ds)]

\* endpoint.NewEndpointWithTTL, for names and targets as they are here: the
\* endpoint of the given name, type, TTL and target, with no labels.
NewEndpointWithTTL(dnsName, recordType, ttl, target) ==
    [DNSName |-> dnsName, RecordType |-> recordType, RecordTTL |-> ttl,
     Targets |-> <<target>>, Labels |-> {}]

\* A parseTidyRecord that takes a TTL that does not parse as 0.
parseTidyRecordLenient(record) ==
    LET dnsName == RecordDNSName(record)
        ttl == ParseInt(record.TTL)
    IN IF dnsName = <<>> THEN <<>>
       ELSE <<NewEndpointWithTTL(dnsName, record.Type, ttl.val,
                IF record.Type = "CNAME"
                THEN TrimRight(record.Destination, Dot)
                ELSE record.Destination)>>

\* parseTidyRecord: <<>> stands for nil, <<e>> for the endpoint e.
parseTidyRecord(record) ==
    LET dnsName == RecordDNSName(record)
        ttl == ParseInt(record.TTL)
    IN IF dnsName = <<>> THEN <<>>
       ELSE IF ~ttl.ok THEN <<>>
       ELSE <<NewEndpointWithTTL(dnsName, record.Type, ttl.val,
                IF record.Type = "CNAME"
                THEN TrimRight(record.Destination, Dot)
                ELSE record.Destination)>>

\* A grouping of the endpoints by their name alone.
SameName(e, f) == e.DNSName = f.DNSName

\* Records: the test under which an endpoint is merged into an earlier one.
SameKey(e, f) == e.DNSName = f.DNSName /\ e.RecordType = f.RecordType

\* Records: the loop over the records; the endpoint of a record is merged
\* into the last endpoint of the list with its key (there is no break), or
\* appended.
RECURSIVE GroupFrom(_, _, _)
GroupFrom(records, i, endpoints) ==
    IF i > Len(records) THEN endpoints
    ELSE LET parsed == parseTidyRecord(records[i]) IN
         IF parsed = <<>> THEN GroupFrom(records, i + 1, endpoints)
         ELSE LET e == parsed[1]
                  same == { k \in DOMAIN endpoints : SameKey(endpoints[k], e) }
              IN IF same # {}
                 THEN LET index == CHOOSE k \in same : \A j \in same : j <= k
                      IN GroupFrom(records, i + 1,
                           [endpoints EXCEPT ![index].Targets = @ \o e.Targets])
                 ELSE GroupFrom(records, i + 1, Append(endpoints, e))

Group(records) == GroupFrom(records, 1, <<>>)

\* A Records that returns what it has when a listing fails.
RecordsPartial(records) == Group(records)

\* Records: the endpoints returned together with an error: nil.
RecordsOnError(records) == <<>>

\* The letter u with diaeresis, U+00FC: one character that is not ASCII.
UUml == "U+00FC"

\* idna.Lookup.ToASCII on the characters that occur here: lower case
\* letters, digits, "-", the capital "A" and UUml.  An ASCII label is put in
\* lower case; a label with UUml is put in lower case and replaced by
\* "xn--" and its Punycode encoding.
ToLower(c) == IF c = "A" THEN "a" ELSE c

\* The Punycode encodings (RFC 3492) of the labels with UUml that occur.
Punycode(label) ==
    CASE label = <<UUml>> -> <<"t", "d", "a">>
      [] label = <<"a", UUml>> -> <<"a", "-", "e", "h", "a">>
      [] label = <<UUml, "a">> -> <<"a", "-", "d", "h", "a">>

ToASCIILabel(label) ==
    LET lower == [i \in DOMAIN label |-> ToLower(label[i])]
    IN IF \A i \in DOMAIN lower : lower[i] # UUml THEN lower
       ELSE <<"x", "n", "-", "-">> \o Punycode(lower)

RECURSIVE ToASCIIFrom(_, _, _)
ToASCIIFrom(str, i, label) ==
    IF i > Len(str) THEN ToASCIILabel(label)
    ELSE IF str[i] = Dot
         THEN ToASCIILabel(label) \o <<Dot>> \o ToASCIIFrom(str, i + 1, <<>>)
         ELSE ToASCIIFrom(str, i + 1, Append(label, str[i]))

ToASCII(str) == ToASCIIFrom(str, 1, <<>>)

\* An adjustment that leaves the labels of the endpoint in place.
AdjustEndpointKeepLabels(v) ==
    [v EXCEPT !.RecordTTL = IF @ # 0 /\ @ < 300 THEN 300 ELSE @,
              !.DNSName = ToASCII(@)]

\* AdjustEndpoints: the body of the loop, for one endpoint.
AdjustEndpoint(v) ==
    [v EXCEPT !.RecordTTL = restrictTTL(@),
              !.Labels = {},
              !.DNSName = ToASCII(@)]

----------------------------------------------------------------------------
(* tidydns.go: the client, and the records Tidy holds *)

\* encodeRecordType; -1 stands for the error "unmapped record type".
encodeRecordType(t) ==
    CASE t = "AAAA" -> 0
      [] t = "A" -> 0
      [] t = "CNAME" -> 2
      [] t = "TXT" -> 5
      [] OTHER -> -1

\* The type name under which Tidy lists a record of a type number.
TypeName(n) == CASE n = 0 -> "A" [] n = 2 -> "CNAME" [] n = 5 -> "TXT"

\* The zones Tidy has.
TidyZones == { Z1, Z2 }

ZoneOfID(id) == CHOOSE z \in TidyZones : z.ID = id

\* The record Tidy holds after a successful CreateRecord(zoneID, info).
StoredRecord(id, zoneID, info) ==
    [ID |-> id,
     Type |-> TypeName(encodeRecordType(info.Type)),
     Name |-> info.Name,
     Description |-> info.Description,
     Destination |-> info.Destination,
     TTL |-> info.TTL,
     ZoneName |-> ZoneOfID(zoneID).Name,
     ZoneID |-> zoneID]

\* The outcomes a CreateRecord call can have: an unmapped type is refused by
\* the client, a zone Tidy does not have by the server; any request can fail.
CreateOutcomes(zoneID, info) ==
    IF encodeRecordType(info.Type) = -1 \/ ~\E z \in TidyZones : z.ID = zoneID
    THEN { FALSE } ELSE { TRUE, FALSE }

\* ListRecords(zoneID): the records of the zone, in the order of their ids.
RECURSIVE SortByID(_)
SortByID(rs) ==
    IF rs = {} THEN <<>>
    ELSE LET r == CHOOSE x \in rs : \A y \in rs : x.ID <= y.ID IN
         <<r>> \o SortByID(rs \ { r })

ListRecords(records, zoneID) ==
    SortByID({ r \in records : r.ZoneID = zoneID })

\* The records Tidy holds at the start.
InitRecords ==
    { [ID |-> 1, Type |-> "A", Name |-> <<"a">>, Description |-> <<>>,
       Destination |-> <<"1">>, TTL |-> Itoa(300),
       ZoneName |-> Z1.Name, ZoneID |-> Z1.ID],
      [ID |-> 2, Type |-> "A", Name |-> <<"a">>, Description |-> <<>>,
       Destination |-> <<"2">>, TTL |-> Itoa(300),
       ZoneName |-> Z1.Name, ZoneID |-> Z1.ID],
      [ID |-> 3, Type |-> "CNAME", Name |-> <<"c">>, Description |-> <<>>,
       Destination |-> <<"t", Dot>>, TTL |-> Itoa(0),
       ZoneName |-> Z1.Name, ZoneID |-> Z1.ID],
      [ID |-> 5, Type |-> "A", Name |-> <<"b">>, Description |-> <<>>,
       Destination |-> <<"7">>, TTL |-> Itoa(300),
       ZoneName |-> Z1.Name, ZoneID |-> Z1.ID],
      [ID |-> 4, Type |-> "TXT", Name |-> <<Dot>>, Description |-> <<>>,
       Destination |-> <<"q">>, TTL |-> Itoa(600),
       ZoneName |-> Z2.Name, ZoneID |-> Z2.ID] }

TidyRecord(id, type, name, destination, ttl, zone) ==
    [ID |-> id, Type |-> type, Name |-> name, Description |-> <<>>,
     Destination |-> destination, TTL |-> ttl,
     ZoneName |-> zone.Name, ZoneID |-> zone.ID]

\* Records of one name and type apart from each other and in two zones,
\* with different TTLs; a CNAME destination with trailing dots.
MixedRecords ==
    { TidyRecord(1, "A", <<"a">>, <<"1">>, Itoa(300), Z1),
      TidyRecord(2, "CNAME", <<"c">>, <<"t", Dot, Dot>>, Itoa(0), Z1),
      TidyRecord(3, "A", <<"a">>, <<"2">>, Itoa(600), Z1),
      TidyRecord(4, "TXT", <<"a">>, <<"x">>, Itoa(300), Z1),
      TidyRecord(5, "A", <<"y">>, <<"8">>, Itoa(300), Z1),
      TidyRecord(6, "A", <<Dot>>, <<"9">>, Itoa(60), Z2) }

\* Records with a TTL that is no integer, and one without a zone name.
BadRecords ==
    { TidyRecord(1, "A", <<"a">>, <<"1">>, <<"3", "0", "0", Dot, "2">>, Z1),
      TidyRecord(2, "A", <<"a">>, <<"2">>, Itoa(300), Z1),
      [TidyRecord(3, "A", <<Dot>>, <<"3">>, Itoa(300), Z1)
          EXCEPT !.ZoneName = <<>>],
      TidyRecord(4, "A", <<"b">>, <<"7">>, <<>>, Z1),
      TidyRecord(5, "TXT", <<Dot>>, <<"q">>, <<"+", "6", "0">>, Z2),
      TidyRecord(6, "A", <<"b">>, <<"8">>, <<"i", "n", "v">>, Z2) }

\* The contents of Tidy that Records is called on.
Listings == { InitRecords, MixedRecords, BadRecords }

----------------------------------------------------------------------------
(* the endpoints and change-sets ApplyChanges is called with *)

EA == [DNSName |-> <<"a", Dot, "z">>, RecordType |-> "A", RecordTTL |-> 300,
       Targets |-> << <<"1">>, <<"2">> >>,
       Labels |-> { <<"owner", "o">> }]
EB == [DNSName |-> <<"b", Dot, "z">>, RecordType |-> "A", RecordTTL |-> 300,
       Targets |-> << <<"7">> >>,
       Labels |-> {}]
EC == [DNSName |-> <<"c", Dot, "z">>, RecordType |-> "CNAME", RecordTTL |-> 0,
       Targets |-> << <<"t">> >>,
       Labels |-> { <<"owner", "o">> }]
ET == [DNSName |-> <<"y", Dot, "z">>, RecordType |-> "TXT", RecordTTL |-> 600,
       Targets |-> << <<Quote, "q", Quote>> >>,
       Labels |-> { <<"owner", "o">>, <<"resource", "r">> }]
EN == [DNSName |-> <<"n", Dot, "z">>, RecordType |-> "A", RecordTTL |-> 60,
       Targets |-> << <<"3">>, <<"4">> >>,
       Labels |-> { <<"owner", "o">> }]
EX == [DNSName |-> <<"x", Dot, "w">>, RecordType |-> "A", RecordTTL |-> 300,
       Targets |-> << <<"5">> >>,
       Labels |-> {}]

\* An endpoint that names its target twice, and one of a name Tidy has no
\* record of.
ED == [DNSName |-> <<"b", Dot, "z">>, RecordType |-> "A", RecordTTL |-> 300,
       Targets |-> << <<"7">>, <<"7">> >>,
       Labels |-> {}]
EG == [DNSName |-> <<"g", Dot, "z">>, RecordType |-> "A", RecordTTL |-> 300,
       Targets |-> << <<"9">> >>,
       Labels |-> {}]

NoChanges ==
    [Create |-> <<>>, Delete |-> <<>>, UpdateOld |-> <<>>, UpdateNew |-> <<>>]

ChangeSets ==
    { [Create |-> <<EN>>, Delete |-> <<EA, EC>>,
       UpdateOld |-> <<>>, UpdateNew |-> <<>>],
      [Create |-> <<>>, Delete |-> <<>>,
       UpdateOld |-> <<EA, EB>>, UpdateNew |-> <<EN, ET>>],
      [Create |-> <<EX, EC>>, Delete |-> <<ET>>,
       UpdateOld |-> <<>>, UpdateNew |-> <<>>],
      [Create |-> <<EG>>, Delete |-> <<EG, ED>>,
       UpdateOld |-> <<>>, UpdateNew |-> <<>>] }

NoResult == [fn |-> "none"]

NoArg == [fn |-> "none"]

----------------------------------------------------------------------------
(* zoneprovider.go *)

\* The state after newProvider: nothing has been called; Tidy holds the
\* records d, and a is the argument list a pure function is called with.
Start(d, a) ==
    /\ apc = "idle"
    /\ changes = NoChanges
    /\ azones = <<>>
    /\ rzones = <<>>
    /\ zi = 1
    /\ allRecords = <<>>
    /\ tasks = <<>>
    /\ retErr = FALSE
    /\ db = d
    /\ listLog = <<>>
    /\ reads = 0
    /\ wpc = "new"
    /\ zones = <<>>
    /\ provider = <<>>
    /\ responder = [c \in Callers |-> <<>>]
    /\ tickC = FALSE
    /\ nticks = 0
    /\ gz = [c \in Callers |-> IdleCall]
    /\ lastGood = <<>>
    /\ lastOk = TRUE
    /\ fetched = {}
    /\ epoch = 0
    /\ anyFail = FALSE
    /\ initial = <<>>
    /\ firstGot = <<>>
    /\ returnedEpoch = 0
    /\ floor = [c \in Callers |-> 0]
    /\ rpc = "idle"
    /\ recResult = NoResult
    /\ parg = a
    /\ pres = NoResult

Init == Start(InitRecords, NoArg)

\* A newZoneProvider that logs a failure of the first ListZones call and
\* goes on with the list that came with the error.
NewZoneProviderNoPanic ==
    /\ wpc = "new"
    /\ \E r \in ListZonesResults :
         /\ fetched' = fetched \cup { r.zones }
         /\ lastOk' = r.ok
         /\ initial' = <<r.zones>>
         /\ wpc' = "select"
         /\ zones' = r.zones
         /\ lastGood' = IF r.ok THEN r.zones ELSE lastGood
    /\ UNCHANGED <<provider, responder, tickC, nticks, gz, epoch, anyFail>>
    /\ UNCHANGED avars
    /\ UNCHANGED <<firstGot, returnedEpoch, floor, rvars, pvars>>

\* newZoneProvider: the first ListZones call; a failure panics, otherwise the
\* ticker and the worker goroutine are started and the provider is returned.
NewZoneProvider ==
    /\ wpc = "new"
    /\ \E res \in ListZonesResults :
         /\ fetched' = fetched \cup { res.zones }
         /\ lastOk' = res.ok
         /\ initial' = <<res.zones>>
         /\ IF res.ok
            THEN /\ wpc' = "select"
                 /\ zones' = res.zones
                 /\ lastGood' = res.zones
            ELSE /\ wpc' = "panicked"
                 /\ UNCHANGED <<zones, lastGood>>
    /\ UNCHANGED <<provider, responder, tickC, nticks, gz, epoch, anyFail>>
    /\ UNCHANGED avars
    /\ UNCHANGED <<firstGot, returnedEpoch, floor, rvars, pvars>>

Started == wpc \in { "select", "listing" }

\* The ticker fires; ticker.C has room for one tick, a further one is dropped.
Tick ==
    /\ Started
    /\ nticks < MaxTicks
    /\ nticks' = nticks + 1
    /\ tickC' = TRUE
    /\ UNCHANGED <<wpc, zones, provider, responder, gz,
                   lastGood, lastOk, fetched, epoch, anyFail>>
    /\ UNCHANGED avars
    /\ UNCHANGED <<hvars, rvars, pvars>>

\* A worker that sends a list that is being updated: all but its last zone.
TornRespond(zs) == IF zs = <<>> THEN zs ELSE SubSeq(zs, 1, Len(zs) - 1)

\* What the worker sends on a responder channel (respChan <- zones).
Respond(zs) == zs

\* A worker that takes a responder from the provider channel and sends
\* nothing on it.
WorkerServeSilent ==
    /\ wpc = "select"
    /\ provider # <<>>
    /\ provider' = Tail(provider)
    /\ UNCHANGED <<wpc, zones, responder, tickC, nticks, gz,
                   lastGood, lastOk, fetched, epoch, anyFail>>
    /\ UNCHANGED avars
    /\ UNCHANGED <<hvars, rvars, pvars>>

\* case respChan := <-provider: respChan <- zones
WorkerServe ==
    /\ wpc = "select"
    /\ provider # <<>>
    /\ LET c == Head(provider) IN
         /\ Len(responder[c]) < 1
         /\ responder' = [responder EXCEPT ![c] = Append(@, Respond(zones))]
         /\ gz' = [gz EXCEPT ![c].servedEpoch = epoch]
    /\ firstGot' = IF firstGot = <<>> THEN <<Respond(zones)>> ELSE firstGot
    /\ provider' = Tail(provider)
    /\ UNCHANGED <<wpc, zones, tickC, nticks,
                   lastGood, lastOk, fetched, epoch, anyFail>>
    /\ UNCHANGED avars
    /\ UNCHANGED <<initial, returnedEpoch, floor, rvars, pvars>>

\* case <-ticker.C: the worker enters tidy.ListZones()
WorkerTick ==
    /\ wpc = "select"
    /\ tickC
    /\ tickC' = FALSE
    /\ wpc' = "listing"
    /\ UNCHANGED <<zones, provider, responder, nticks, gz,
                   lastGood, lastOk, fetched, epoch, anyFail>>
    /\ UNCHANGED avars
    /\ UNCHANGED <<hvars, rvars, pvars>>

\* A refresh whose result goes to a shadowed variable: the list stays.
StaleAssign(old, res) == old

\* The value of `zones` after `zones, err = tidy.ListZones()`.
RefreshAssign(old, res) == res.zones

\* A refresh that puts the list of the first fetch back when it fails.
WorkerListZonesReturnRewind ==
    /\ wpc = "listing"
    /\ \E res \in ListZonesResults :
         /\ zones' = IF res.ok THEN res.zones ELSE Head(initial)
         /\ epoch' = IF res.ok THEN epoch + 1 ELSE 0
         /\ fetched' = fetched \cup { res.zones }
         /\ lastOk' = res.ok
         /\ lastGood' = IF res.ok THEN res.zones ELSE lastGood
         /\ anyFail' = (anyFail \/ ~res.ok)
    /\ wpc' = "select"
    /\ UNCHANGED <<provider, responder, tickC, nticks, gz>>
    /\ UNCHANGED avars
    /\ UNCHANGED <<hvars, rvars, pvars>>

\* tidy.ListZones() returns to the worker: both results are assigned, then
\* the error is looked at (logged, continue).
WorkerListZonesReturn ==
    /\ wpc = "listing"
    /\ \E res \in ListZonesResults :
         /\ zones' = RefreshAssign(zones, res)
         /\ fetched' = fetched \cup { res.zones }
         /\ lastOk' = res.ok
         /\ lastGood' = IF res.ok THEN res.zones ELSE lastGood
         /\ anyFail' = (anyFail \/ ~res.ok)
    /\ epoch' = epoch + 1
    /\ wpc' = "select"
    /\ UNCHANGED <<provider, responder, tickC, nticks, gz>>
    /\ UNCHANGED avars
    /\ UNCHANGED <<hvars, rvars, pvars>>

\* getZones: responder := make(chan []Zone, 1)
GetZonesCall(c) ==
    /\ Started
    /\ gz[c].pc = "idle"
    /\ gz' = [gz EXCEPT ![c] = [pc |-> "send", got |-> <<>>,
                                startEpoch |-> epoch, afterFail |-> anyFail,
                                servedEpoch |-> 0]]
    /\ responder' = [responder EXCEPT ![c] = <<>>]

\* getZones: provider <- responder
GetZonesSend(c) ==
    /\ gz[c].pc = "send"
    /\ Len(provider) < 1
    /\ provider' = Append(provider, c)
    /\ gz' = [gz EXCEPT ![c].pc = "recv"]
    /\ UNCHANGED <<wpc, zones, responder, tickC, nticks,
                   lastGood, lastOk, fetched, epoch, anyFail>>
    /\ UNCHANGED avars
    /\ UNCHANGED <<hvars, rvars, pvars>>

\* getZones: return <-responder
GetZonesRecv(c) ==
    /\ gz[c].pc = "recv"
    /\ responder[c] # <<>>
    /\ responder' = [responder EXCEPT ![c] = Tail(@)]
    /\ gz' = [gz EXCEPT ![c].pc = "idle", ![c].got = <<Head(responder[c])>>]

\* GetDomainFilter: p.zoneProvider.getZones()
GetDomainFilter(c) ==
    /\ GetZonesCall(c)
    /\ UNCHANGED <<wpc, zones, provider, tickC, nticks,
                   lastGood, lastOk, fetched, epoch, anyFail>>
    /\ UNCHANGED avars
    /\ UNCHANGED <<hvars, rvars, pvars>>

\* GetDomainFilter: the zone list arrives and the filter is built from it
GetDomainFilterReturn(c) ==
    /\ GetZonesRecv(c)
    /\ UNCHANGED <<wpc, zones, provider, tickC, nticks,
                   lastGood, lastOk, fetched, epoch, anyFail>>
    /\ UNCHANGED avars
    /\ UNCHANGED <<hvars, rvars, pvars>>

ZoneNext ==
    \/ NewZoneProvider
    \/ Tick
    \/ WorkerServe
    \/ WorkerTick
    \/ WorkerListZonesReturn
    \/ \E c \in DomainFilterCallers : GetDomainFilter(c)
    \/ \E c \in DomainFilterCallers : GetZonesSend(c)
    \/ \E c \in DomainFilterCallers : GetDomainFilterReturn(c)

SpecZone == Init /\ [][ZoneNext]_vars

\* getZones with the order of the calls kept: a call begins, and the latest
\* refresh that a call which has returned has seen is noted for it
ObservedCall(c) ==
    /\ GetZonesCall(c)
    /\ floor' = [floor EXCEPT ![c] = returnedEpoch]
    /\ UNCHANGED <<wpc, zones, provider, tickC, nticks,
                   lastGood, lastOk, fetched, epoch, anyFail>>
    /\ UNCHANGED avars
    /\ UNCHANGED <<initial, firstGot, returnedEpoch, rvars, pvars>>

\* getZones with the order of the calls kept: the call returns
ObservedReturn(c) ==
    /\ GetZonesRecv(c)
    /\ returnedEpoch' = IF gz[c].servedEpoch > returnedEpoch
                        THEN gz[c].servedEpoch ELSE returnedEpoch
    /\ floor' = [floor EXCEPT ![c] = 0]
    /\ UNCHANGED <<wpc, zones, provider, tickC, nticks,
                   lastGood, lastOk, fetched, epoch, anyFail>>
    /\ UNCHANGED avars
    /\ UNCHANGED <<initial, firstGot, rvars, pvars>>

ReadsNext ==
    \/ NewZoneProvider
    \/ Tick
    \/ WorkerServe
    \/ WorkerTick
    \/ WorkerListZonesReturn
    \/ \E c \in DomainFilterCallers : ObservedCall(c)
    \/ \E c \in DomainFilterCallers : GetZonesSend(c)
    \/ \E c \in DomainFilterCallers : ObservedReturn(c)

SpecReads == Init /\ [][ReadsNext]_vars

\* The scheduling the zone provider runs under.  Every ListZones call of the
\* worker returns.  select takes one of its ready cases at random, so a
\* responder that waits in the provider channel is taken however often a
\* tick comes in between.  The Go runtime wakes the senders that are blocked
\* on the provider channel in the order they came, so each of them gets to
\* send; and a caller whose responder holds a list receives it.
ZoneFairness ==
    /\ WF_vars(WorkerListZonesReturn)
    /\ SF_vars(WorkerServe)
    /\ \A c \in DomainFilterCallers :
         SF_vars(GetZonesSend(c)) /\ WF_vars(GetDomainFilterReturn(c))

SpecZoneFair == SpecZone /\ ZoneFairness

----------------------------------------------------------------------------
(* provider.go: ApplyChanges and the goroutines it spawns *)

NewTask(kind, endpoint) ==
    [kind |-> kind, ep |-> endpoint, idx |-> 1, done |-> FALSE, log |-> <<>>]

RECURSIVE SpawnAll(_, _, _)
SpawnAll(kind, endpoints, i) ==
    IF i > Len(endpoints) THEN <<>>
    ELSE <<NewTask(kind, endpoints[i])>> \o SpawnAll(kind, endpoints, i + 1)

\* The id Tidy gives the record created for target ti by task t: a fresh one.
FreshID(t, ti) == 100 + 10 * t + ti

\* createRecord and deleteEndpoint return at the first call that fails, and
\* after the call for the last of the n targets or records.
TaskEnds(ok, idx, n) == ~ok \/ idx >= n

Returned == apc = "returned"

\* ApplyChanges: zones := p.zoneProvider.getZones(), the call is issued
ApplyChanges(cs) ==
    /\ apc = "idle"
    /\ GetZonesCall("apply")
    /\ changes' = cs
    /\ reads' = reads + 1
    /\ apc' = "zones"
    /\ UNCHANGED <<wpc, zones, provider, tickC, nticks,
                   lastGood, lastOk, fetched, epoch, anyFail>>
    /\ UNCHANGED <<azones, rzones, zi, allRecords, tasks, retErr, db, listLog>>
    /\ UNCHANGED <<hvars, rvars, pvars>>

\* ApplyChanges: the zone list arrives; one goroutine per endpoint to create
ApplyGotZones ==
    /\ apc = "zones"
    /\ GetZonesRecv("apply")
    /\ azones' = Head(responder["apply"])
    /\ tasks' = tasks \o SpawnAll("create", changes.Create, 1)
    /\ apc' = "allRecords"
    /\ UNCHANGED <<wpc, zones, provider, tickC, nticks,
                   lastGood, lastOk, fetched, epoch, anyFail>>
    /\ UNCHANGED <<changes, rzones, zi, allRecords, retErr, db, listLog, reads>>
    /\ UNCHANGED <<hvars, rvars, pvars>>

\* allRecords: zones := p.zoneProvider.getZones(), the call is issued
AllRecordsCall ==
    /\ apc = "allRecords"
    /\ GetZonesCall("apply")
    /\ reads' = reads + 1
    /\ apc' = "allZones"
    /\ UNCHANGED <<wpc, zones, provider, tickC, nticks,
                   lastGood, lastOk, fetched, epoch, anyFail>>
    /\ UNCHANGED <<changes, azones, rzones, zi, allRecords, tasks, retErr,
                   db, listLog>>
    /\ UNCHANGED <<hvars, rvars, pvars>>

\* allRecords: the zone list arrives
AllRecordsGotZones ==
    /\ apc = "allZones"
    /\ GetZonesRecv("apply")
    /\ rzones' = Head(responder["apply"])
    /\ zi' = 1
    /\ allRecords' = <<>>
    /\ apc' = "listRecords"
    /\ UNCHANGED <<wpc, zones, provider, tickC, nticks,
                   lastGood, lastOk, fetched, epoch, anyFail>>
    /\ UNCHANGED <<changes, azones, tasks, retErr, db, listLog, reads>>
    /\ UNCHANGED <<hvars, rvars, pvars>>

\* allRecords: p.tidy.ListRecords(zone.ID) for the next zone; on an error
\* allRecords returns it and ApplyChanges returns it at once.
AllRecordsList ==
    /\ apc = "listRecords"
    /\ zi <= Len(rzones)
    /\ \E ok \in BOOLEAN :
         /\ listLog' = Append(listLog, [zoneID |-> rzones[zi].ID, ok |-> ok])
         /\ IF ok
            THEN /\ allRecords' = allRecords \o ListRecords(db, rzones[zi].ID)
                 /\ zi' = zi + 1
                 /\ UNCHANGED <<apc, retErr>>
            ELSE /\ apc' = "returned"
                 /\ retErr' = TRUE
                 /\ UNCHANGED <<allRecords, zi>>
    /\ UNCHANGED zvars
    /\ UNCHANGED <<changes, azones, rzones, tasks, db, reads>>
    /\ UNCHANGED <<hvars, rvars, pvars>>

\* allRecords returns the records; one goroutine per endpoint to delete is
\* spawned, then the updateOld endpoints are taken up by the caller itself.
AllRecordsReturn ==
    /\ apc = "listRecords"
    /\ zi > Len(rzones)
    /\ tasks' = tasks \o SpawnAll("delete", changes.Delete, 1)
                      \o SpawnAll("updateOld", changes.UpdateOld, 1)
    /\ apc' = "updateOld"
    /\ UNCHANGED zvars
    /\ UNCHANGED <<changes, azones, rzones, zi, allRecords, retErr, db,
                   listLog, reads>>
    /\ UNCHANGED <<hvars, rvars, pvars>>

\* createRecord, one step: the endpoint is mapped to a zone; unmapped, or
\* without a target left, the goroutine ends; else CreateRecord is called for
\* the next target.
CreateStep(t) ==
    LET task == tasks[t]
        tn == tidyfyName(azones, task.ep.DNSName)
    IN
    IF tn.name = <<>> \/ task.idx > Len(task.ep.Targets)
    THEN /\ tasks' = [tasks EXCEPT ![t].done = TRUE]
         /\ UNCHANGED db
    ELSE LET rec == NewRec(task.ep, tn.name, task.idx) IN
         \E ok \in CreateOutcomes(tn.zoneID, rec) :
           /\ tasks' = [tasks EXCEPT
                ![t].log = Append(@, [op |-> "create", zoneID |-> tn.zoneID,
                                      rec |-> rec, ok |-> ok,
                                      late |-> Returned]),
                ![t].idx = @ + 1,
                ![t].done = TaskEnds(ok, task.idx, Len(task.ep.Targets))]
           /\ db' = IF ok
                    THEN db \cup { StoredRecord(FreshID(t, task.idx),
                                                tn.zoneID, rec) }
                    ELSE db

\* A deleteEndpoint that names the zone "0" in its DeleteRecord calls.
DeleteStepNoZone(t) ==
    LET task == tasks[t]
        found == findRecords(allRecords, task.ep)
    IN
    IF task.idx > Len(found)
    THEN /\ tasks' = [tasks EXCEPT ![t].done = TRUE]
         /\ UNCHANGED db
    ELSE LET record == found[task.idx] IN
         \E ok \in BOOLEAN :
           /\ tasks' = [tasks EXCEPT
                ![t].log = Append(@, [op |-> "delete",
                                      zoneID |-> "0",
                                      id |-> record.ID, ok |-> ok,
                                      late |-> Returned]),
                ![t].idx = @ + 1,
                ![t].done = TaskEnds(ok, task.idx, Len(found))]
           /\ db' = IF ok THEN { r \in db : r.ID # record.ID } ELSE db

\* deleteEndpoint, one step: without a found record left it returns; else
\* DeleteRecord is called for the next found record.
DeleteStep(t) ==
    LET task == tasks[t]
        found == findRecords(allRecords, task.ep)
    IN
    IF task.idx > Len(found)
    THEN /\ tasks' = [tasks EXCEPT ![t].done = TRUE]
         /\ UNCHANGED db
    ELSE LET record == found[task.idx] IN
         \E ok \in BOOLEAN :
           /\ tasks' = [tasks EXCEPT
                ![t].log = Append(@, [op |-> "delete",
                                      zoneID |-> record.ZoneID,
                                      id |-> record.ID, ok |-> ok,
                                      late |-> Returned]),
                ![t].idx = @ + 1,
                ![t].done = TaskEnds(ok, task.idx, Len(found))]
           /\ db' = IF ok THEN { r \in db : r.ID # record.ID } ELSE db

\* A goroutine of the Create or UpdateNew loop runs p.createRecord
CreateTask(t) ==
    /\ t \in DOMAIN tasks
    /\ tasks[t].kind \in { "create", "updateNew" }
    /\ ~tasks[t].done
    /\ CreateStep(t)
    /\ UNCHANGED zvars
    /\ UNCHANGED <<apc, changes, azones, rzones, zi, allRecords, retErr,
                   listLog, reads>>
    /\ UNCHANGED <<hvars, rvars, pvars>>

\* A goroutine of the Delete loop runs p.deleteEndpoint
DeleteTask(t) ==
    /\ t \in DOMAIN tasks
    /\ tasks[t].kind = "delete"
    /\ ~tasks[t].done
    /\ DeleteStep(t)
    /\ UNCHANGED zvars
    /\ UNCHANGED <<apc, changes, azones, rzones, zi, allRecords, retErr,
                   listLog, reads>>
    /\ UNCHANGED <<hvars, rvars, pvars>>

\* An updateOld loop that is left at the first failed deletion.
NextOldAbort(ts) ==
    LET open == { t \in DOMAIN ts : ts[t].kind = "updateOld" /\ ~ts[t].done }
        failed == \E t \in DOMAIN ts :
                     /\ ts[t].kind = "updateOld"
                     /\ \E i \in DOMAIN ts[t].log : ~ts[t].log[i].ok
    IN IF open = {} \/ failed THEN 0
       ELSE CHOOSE t \in open : \A u \in open : t <= u

\* The updateOld endpoint the loop of the caller is at; 0 past the last one.
NextOld(ts) ==
    LET open == { t \in DOMAIN ts : ts[t].kind = "updateOld" /\ ~ts[t].done }
    IN IF open = {} THEN 0 ELSE CHOOSE t \in open : \A u \in open : t <= u

\* for _, old := range changes.UpdateOld { p.deleteEndpoint(allRecords, old) }
UpdateOldStep ==
    /\ apc = "updateOld"
    /\ NextOld(tasks) # 0
    /\ DeleteStep(NextOld(tasks))
    /\ UNCHANGED zvars
    /\ UNCHANGED <<apc, changes, azones, rzones, zi, allRecords, retErr,
                   listLog, reads>>
    /\ UNCHANGED <<hvars, rvars, pvars>>

\* An UpdateNew loop that does not wait for the updateOld endpoints.
SpawnUpdateNewEarly ==
    /\ apc = "updateOld"
    /\ tasks' = tasks \o SpawnAll("updateNew", changes.UpdateNew, 1)
    /\ apc' = "wait"
    /\ UNCHANGED zvars
    /\ UNCHANGED <<changes, azones, rzones, zi, allRecords, retErr, db,
                   listLog, reads>>
    /\ UNCHANGED <<hvars, rvars, pvars>>

\* The UpdateNew loop: one goroutine per endpoint; then wg.Wait() is reached
SpawnUpdateNew ==
    /\ apc = "updateOld"
    /\ NextOld(tasks) = 0
    /\ tasks' = tasks \o SpawnAll("updateNew", changes.UpdateNew, 1)
    /\ apc' = "wait"
    /\ UNCHANGED zvars
    /\ UNCHANGED <<changes, azones, rzones, zi, allRecords, retErr, db,
                   listLog, reads>>
    /\ UNCHANGED <<hvars, rvars, pvars>>

\* The goroutines wg.Wait() waits for: those that have not called wg.Done().
Pending(ts) ==
    { t \in DOMAIN ts : ts[t].kind # "updateOld" /\ ~ts[t].done }

\* An ApplyChanges that reports the failures of its tasks.
ApplyResultAggregated(ts) ==
    \E t \in DOMAIN ts : \E i \in DOMAIN ts[t].log : ~ts[t].log[i].ok

\* The value ApplyChanges returns after wg.Wait(): nil.
ApplyResult(ts) == FALSE

\* wg.Wait() returns; return nil
ApplyReturn ==
    /\ apc = "wait"
    /\ Pending(tasks) = {}
    /\ retErr' = ApplyResult(tasks)
    /\ apc' = "returned"
    /\ UNCHANGED zvars
    /\ UNCHANGED <<changes, azones, rzones, zi, allRecords, tasks, db,
                   listLog, reads>>
    /\ UNCHANGED <<hvars, rvars, pvars>>

ApplyNext ==
    \/ NewZoneProvider
    \/ Tick
    \/ WorkerServe
    \/ WorkerTick
    \/ WorkerListZonesReturn
    \/ GetZonesSend("apply")
    \/ \E cs \in ChangeSets : ApplyChanges(cs)
    \/ ApplyGotZones
    \/ AllRecordsCall
    \/ AllRecordsGotZones
    \/ AllRecordsList
    \/ AllRecordsReturn
    \/ \E t \in DOMAIN tasks : CreateTask(t)
    \/ \E t \in DOMAIN tasks : DeleteTask(t)
    \/ UpdateOldStep
    \/ SpawnUpdateNew
    \/ ApplyReturn

SpecApply == Init /\ [][ApplyNext]_vars

----------------------------------------------------------------------------
(* provider.go: Records *)

\* Records: p.allRecords() begins with p.zoneProvider.getZones()
RecordsCall ==
    /\ rpc = "idle"
    /\ GetZonesCall("records")
    /\ rpc' = "zones"
    /\ UNCHANGED <<wpc, zones, provider, tickC, nticks,
                   lastGood, lastOk, fetched, epoch, anyFail>>
    /\ UNCHANGED <<avars, hvars, recResult, pvars>>

\* allRecords: the zone list arrives
RecordsGotZones ==
    /\ rpc = "zones"
    /\ GetZonesRecv("records")
    /\ rzones' = Head(responder["records"])
    /\ zi' = 1
    /\ allRecords' = <<>>
    /\ rpc' = "listRecords"
    /\ UNCHANGED <<wpc, zones, provider, tickC, nticks,
                   lastGood, lastOk, fetched, epoch, anyFail>>
    /\ UNCHANGED <<apc, changes, azones, tasks, retErr, db, listLog, reads>>
    /\ UNCHANGED <<hvars, recResult, pvars>>

\* allRecords: p.tidy.ListRecords(zone.ID) for the next zone; on an error
\* allRecords returns nil and the error, and Records returns them.
RecordsList ==
    /\ rpc = "listRecords"
    /\ zi <= Len(rzones)
    /\ \E ok \in BOOLEAN :
         /\ listLog' = Append(listLog, [zoneID |-> rzones[zi].ID, ok |-> ok])
         /\ IF ok
            THEN /\ allRecords' = allRecords \o ListRecords(db, rzones[zi].ID)
                 /\ zi' = zi + 1
                 /\ UNCHANGED <<rpc, recResult>>
            ELSE /\ rpc' = "returned"
                 /\ recResult' = [fn |-> "Records", err |-> TRUE,
                                  endpoints |-> RecordsOnError(allRecords)]
                 /\ UNCHANGED <<allRecords, zi>>
    /\ UNCHANGED zvars
    /\ UNCHANGED <<apc, changes, azones, rzones, tasks, retErr, db, reads>>
    /\ UNCHANGED <<hvars, pvars>>

\* Records: all zones are listed; the records are parsed and grouped
RecordsReturn ==
    /\ rpc = "listRecords"
    /\ zi > Len(rzones)
    /\ recResult' = [fn |-> "Records", err |-> FALSE,
                     endpoints |-> Group(allRecords)]
    /\ rpc' = "returned"
    /\ UNCHANGED zvars
    /\ UNCHANGED <<avars, hvars, pvars>>

RecordsInit == \E d \in Listings : Start(d, NoArg)

RecordsNext ==
    \/ NewZoneProvider
    \/ Tick
    \/ WorkerServe
    \/ WorkerTick
    \/ WorkerListZonesReturn
    \/ GetZonesSend("records")
    \/ RecordsCall
    \/ RecordsGotZones
    \/ RecordsList
    \/ RecordsReturn

SpecRecords == RecordsInit /\ [][RecordsNext]_vars

----------------------------------------------------------------------------
(* provider.go: tidyfyName, restrictTTL, createRecord and parseTidyRecord,
   each called on its own *)

PureZoneLists == { <<>>, <<Z1>>, <<Z2>>, <<Z1, Z2>>, <<Z2, Z1>> }

\* "", "z", "y.z", "a.z", "a.y.z", "xy.z", ".z", ".y.z", "x.w", "yz", "a.b.z"
FQDNs ==
    { <<>>, <<"z">>, <<"y", Dot, "z">>, <<"a", Dot, "z">>,
      <<"a", Dot, "y", Dot, "z">>, <<"x", "y", Dot, "z">>, <<Dot, "z">>,
      <<Dot, "y", Dot, "z">>, <<"x", Dot, "w">>, <<"y", "z">>,
      <<"a", Dot, "b", Dot, "z">> }

TTLs == ((0 - 2) .. MaxTTL) \cup { 600, 3600 }

EndpointTTLs == { 0 - 1, 0, 1, 60, 299, 300, 301, 600 }

\* Endpoints with one target and with two: an address, a host name and a
\* quoted text.
PureEndpoints ==
    { [DNSName |-> f, RecordType |-> ty.type, RecordTTL |-> ttl,
       Targets |-> ty.targets, Labels |-> { <<"owner", "o">> }] :
        f \in FQDNs, ttl \in EndpointTTLs,
        ty \in { [type |-> "A", targets |-> << <<"1">> >>],
                 [type |-> "A", targets |-> << <<"1">>, <<"2">> >>],
                 [type |-> "CNAME", targets |-> << <<"t">> >>],
                 [type |-> "TXT", targets |-> << <<Quote, "q", Quote>> >>] } }

\* "a.z", "A.z", UUml ".z", "a" UUml ".z", "xn--tda.z"
AdjustNames ==
    { <<"a", Dot, "z">>, <<"A", Dot, "z">>, <<UUml, Dot, "z">>,
      <<"a", UUml, Dot, "z">>,
      <<"x", "n", "-", "-", "t", "d", "a", Dot, "z">> }

AdjustEndpointSet ==
    { [DNSName |-> n, RecordType |-> ty.type, RecordTTL |-> ttl,
       Targets |-> ty.targets, Labels |-> l] :
        n \in AdjustNames, ttl \in { 0, 100, 300 },
        l \in { {}, { <<"label", "value">>, <<"label2", "value2">> } },
        ty \in { [type |-> "A", targets |-> << <<"1">>, <<"2">> >>],
                 [type |-> "TXT", targets |-> << <<Quote, "q", Quote>> >>] } }

\* The lists of no, of one and of two endpoints.
AdjustLists ==
    { <<>> } \cup { <<e>> : e \in AdjustEndpointSet }
             \cup { <<e, f>> : e \in AdjustEndpointSet,
                               f \in { g \in AdjustEndpointSet :
                                         g.RecordTTL = 100 } }

PureArgs ==
    { [fn |-> "tidyfyName", zones |-> zs, name |-> f] :
        zs \in PureZoneLists, f \in FQDNs }
    \cup { [fn |-> "restrictTTL", ttl |-> t] : t \in TTLs }
    \cup { [fn |-> "createRecord", zones |-> zs, endpoint |-> e] :
             zs \in PureZoneLists, e \in PureEndpoints }
    \cup { [fn |-> "AdjustEndpoints", endpoints |-> es] : es \in AdjustLists }

\* What a call has been made with, once the call is over
Called(fn) == parg # NoArg /\ parg.fn = fn /\ pres # NoResult

\* tidyfyName(zones, name)
CallTidyfyName ==
    /\ parg.fn = "tidyfyName" /\ pres = NoResult
    /\ pres' = [fn |-> "tidyfyName",
                name |-> tidyfyName(parg.zones, parg.name).name,
                zoneID |-> tidyfyName(parg.zones, parg.name).zoneID]
    /\ UNCHANGED <<zvars, avars, hvars, rvars, parg>>

\* restrictTTL(ttl)
CallRestrictTTL ==
    /\ parg.fn = "restrictTTL" /\ pres = NoResult
    /\ pres' = [fn |-> "restrictTTL", ttl |-> restrictTTL(parg.ttl)]
    /\ UNCHANGED <<zvars, avars, hvars, rvars, parg>>

\* The record Tidy lists for a record info created in the zone zoneID of
\* the list zs, when Tidy stores the info as it is.
ListedRecord(id, zs, zoneID, info) ==
    LET zone == CHOOSE z \in Range(zs) : z.ID = zoneID IN
    [ID |-> id, Type |-> info.Type, Name |-> info.Name,
     Description |-> info.Description, Destination |-> info.Destination,
     TTL |-> info.TTL, ZoneName |-> zone.Name, ZoneID |-> zoneID]

\* createRecord(zones, endpoint) with every CreateRecord call succeeding:
\* the records Tidy then lists for it
CallCreateRecord ==
    /\ parg.fn = "createRecord" /\ pres = NoResult
    /\ LET tn == tidyfyName(parg.zones, parg.endpoint.DNSName) IN
       pres' = [fn |-> "createRecord",
                records |->
                  IF tn.name = <<>> THEN <<>>
                  ELSE [ti \in DOMAIN parg.endpoint.Targets |->
                          ListedRecord(ti, parg.zones, tn.zoneID,
                                       NewRec(parg.endpoint, tn.name, ti))]]
    /\ UNCHANGED <<zvars, avars, hvars, rvars, parg>>

\* parseTidyRecord on each of the records created
CallParseTidyRecord ==
    /\ pres # NoResult /\ pres.fn = "createRecord"
    /\ pres' = [fn |-> "parseTidyRecord",
                created |-> pres.records,
                parsed |-> [i \in DOMAIN pres.records |->
                              parseTidyRecord(pres.records[i])]]
    /\ UNCHANGED <<zvars, avars, hvars, rvars, parg>>

\* allRecords over the records Tidy lists: those of each zone of the list,
\* zone after zone.
RECURSIVE allRecordsOf(_, _, _)
allRecordsOf(zs, records, i) ==
    IF i > Len(zs) THEN <<>>
    ELSE SelectSeq(records, LAMBDA r : r.ZoneID = zs[i].ID)
         \o allRecordsOf(zs, records, i + 1)

\* ApplyChanges with the same endpoint to delete, after the ApplyChanges
\* that created it: the records created are fetched and deleteEndpoint
\* deletes the records it finds, every DeleteRecord call succeeding.
CallDeleteEndpoint ==
    /\ pres # NoResult /\ pres.fn = "createRecord"
    /\ LET fetched_ == allRecordsOf(parg.zones, pres.records, 1)
           found == findRecords(fetched_, parg.endpoint)
       IN pres' = [fn |-> "deleteEndpoint",
                   created |-> pres.records,
                   deleted |-> [i \in DOMAIN found |-> found[i].ID]]
    /\ UNCHANGED <<zvars, avars, hvars, rvars, parg>>

\* AdjustEndpoints(endpoints): every endpoint is adjusted in place and the
\* list is returned with a nil error
CallAdjustEndpoints ==
    /\ parg.fn = "AdjustEndpoints" /\ pres = NoResult
    /\ pres' = [fn |-> "AdjustEndpoints",
                endpoints |-> [i \in DOMAIN parg.endpoints |->
                                 AdjustEndpoint(parg.endpoints[i])],
                err |-> FALSE]
    /\ UNCHANGED <<zvars, avars, hvars, rvars, parg>>

PureInit == \E a \in PureArgs : Start(InitRecords, a)

PureNext ==
    \/ CallTidyfyName
    \/ CallRestrictTTL
    \/ CallCreateRecord
    \/ CallParseTidyRecord
    \/ CallDeleteEndpoint
    \/ CallAdjustEndpoints

SpecPure == PureInit /\ [][PureNext]_vars

----------------------------------------------------------------------------
(* The zone provider: properties *)

\* A getZones call that has returned, was answered in the current epoch
\* (no ListZones call has completed since the answer).
AnsweredNow(c) == gz[c].got # <<>> /\ gz[c].servedEpoch = epoch

\* C1: a getZones call started after a refresh has failed returns the list of
\* the most recent successful ListZones call (a failed refresh does not
\* overwrite the cached list).
C1_FailedRefreshKeepsList ==
    \A c \in Callers :
        (AnsweredNow(c) /\ gz[c].afterFail) => gz[c].got[1] = lastGood

\* C8: every list a getZones call returns, and every list in a responder
\* channel, is as a whole the list some single ListZones call returned.
C8_WholeList ==
    \A c \in Callers :
        /\ \A i \in DOMAIN responder[c] : responder[c][i] \in fetched
        /\ gz[c].got # <<>> => gz[c].got[1] \in fetched

\* Two callers have been answered around a refresh, one with the list of
\* before and one with the different list of after.
C8_Witness ==
    \E c, d \in DomainFilterCallers :
        /\ gz[c].got # <<>> /\ gz[d].got # <<>>
        /\ gz[c].servedEpoch < gz[d].servedEpoch
        /\ gz[c].got # gz[d].got
        /\ gz[d].startEpoch < gz[d].servedEpoch

\* C9: a getZones call never has to wait for a ListZones call: while a
\* refresh is in flight and a request is queued, the worker can answer it.
C9_ReadsNeverWaitForListZones ==
    (wpc = "listing" /\ provider # <<>>) => ENABLED WorkerServe

\* C10: a getZones call started after a refresh that succeeded with list L
\* has completed, and answered before the next refresh completes, returns L.
C10_RefreshReplacesList ==
    \A c \in Callers :
        (AnsweredNow(c) /\ gz[c].startEpoch = epoch /\ epoch >= 1 /\ lastOk)
            => gz[c].got[1] = lastGood

\* A call started after a successful refresh changed the list has returned.
C10_Witness ==
    \E c \in DomainFilterCallers :
        /\ AnsweredNow(c) /\ gz[c].startEpoch = epoch /\ epoch >= 1 /\ lastOk
        /\ \E l \in fetched : l # lastGood
        /\ lastGood # <<>>

----------------------------------------------------------------------------
(* ApplyChanges: properties *)

IsCreate(t) == tasks[t].kind \in { "create", "updateNew" }

\* The calls the task of an endpoint has to make: one per target of a mapped
\* endpoint to create, one per record found for an endpoint to delete.
Work(t) ==
    IF IsCreate(t)
    THEN IF tidyfyName(azones, tasks[t].ep.DNSName).name = <<>> THEN 0
         ELSE Len(tasks[t].ep.Targets)
    ELSE Len(findRecords(allRecords, tasks[t].ep))

Failed(t) == \E i \in DOMAIN tasks[t].log : ~tasks[t].log[i].ok

\* C2: within one ApplyChanges the zone cache is read once, and the records
\* are swept over the same zone list that maps the endpoints to create.
C2_SingleZoneSnapshot ==
    apc \in { "listRecords", "updateOld", "wait", "returned" }
        => (reads = 1 /\ rzones = azones)

\* C3: when ApplyChanges has returned, with or without an error, every task
\* it spawned has finished and no call of a task was made after the return.
C3_ReturnJoinsTasks ==
    Returned =>
        \A t \in DOMAIN tasks :
            /\ tasks[t].done
            /\ \A i \in DOMAIN tasks[t].log : ~tasks[t].log[i].late

\* C4: ApplyChanges returns an error if and only if a ListRecords call of
\* its pre-fetch failed, whatever CreateRecord and DeleteRecord calls failed.
C4_ErrorIffListRecordsFails ==
    Returned => (retErr <=> \E i \in DOMAIN listLog : ~listLog[i].ok)

\* ApplyChanges has returned nil although a create and a delete call failed.
C4_Witness ==
    /\ Returned /\ ~retErr
    /\ \E t, u \in DOMAIN tasks :
         /\ IsCreate(t) /\ Failed(t)
         /\ ~IsCreate(u) /\ Failed(u)

\* C5: the calls for the targets of one endpoint are independent: a finished
\* task has made the call for every target (every found record), also after
\* one of them failed.
C5_AllTargetsAttempted ==
    \A t \in DOMAIN tasks : tasks[t].done => Len(tasks[t].log) = Work(t)

\* C6: when ApplyChanges returns nil, every endpoint of the change-set has
\* had its task run to its end before the return, whatever calls failed in
\* the tasks of the other endpoints: each task with a call to make has made
\* one.
C6_SiblingTasksRun ==
    (Returned /\ ~retErr) =>
        /\ Len(tasks) = Len(changes.Create) + Len(changes.Delete)
                        + Len(changes.UpdateOld) + Len(changes.UpdateNew)
        /\ \A t \in DOMAIN tasks :
             /\ tasks[t].done
             /\ Work(t) > 0 => tasks[t].log # <<>>
             /\ \A i \in DOMAIN tasks[t].log : ~tasks[t].log[i].late

\* ApplyChanges has returned nil; the first call of an updateOld deletion
\* failed and the tasks of the later endpoints have made their calls.
C6_Witness ==
    /\ Returned /\ ~retErr
    /\ \E t \in DOMAIN tasks :
         /\ tasks[t].kind = "updateOld"
         /\ tasks[t].log # <<>>
         /\ ~tasks[t].log[1].ok
         /\ \A u \in DOMAIN tasks : u > t => tasks[u].log # <<>>
         /\ \E u \in DOMAIN tasks : u > t /\ tasks[u].kind = "updateOld"
         /\ \E u \in DOMAIN tasks : u > t /\ tasks[u].kind = "updateNew"

IsDelete(t) == tasks[t].kind \in { "delete", "updateOld" }

\* The FQDN of a record: zoneName when name is ".", else name.zoneName.
FQDN(r) == IF r.Name = <<".">> THEN r.ZoneName
           ELSE r.Name \o <<".">> \o r.ZoneName

\* The target as createRecord sends it: enclosing quotes stripped, and a
\* trailing "." appended for CNAME.
Normalized(type, target) ==
    IF type = "CNAME" THEN Trim(target, "\"") \o <<".">>
    ELSE Trim(target, "\"")

----------------------------------------------------------------------------
(* newZoneProvider: properties *)

\* Nothing of the zone provider runs: no tick, no request, no answer.
NothingServed ==
    /\ nticks = 0 /\ ~tickC
    /\ provider = <<>>
    /\ firstGot = <<>>
    /\ \A c \in Callers : gz[c] = IdleCall /\ responder[c] = <<>>

\* The first ListZones call has been made and has failed.
FirstFetchFailed == initial # <<>> /\ epoch = 0 /\ ~lastOk

\* C11: if the first ListZones call fails, newZoneProvider panics and no
\* worker runs and no getZones call is served; if it succeeds, the first
\* getZones call returns exactly its list.
C11_FirstFetchDecides ==
    /\ FirstFetchFailed => wpc = "panicked"
    /\ wpc = "panicked" => NothingServed
    /\ firstGot # <<>> => firstGot = initial

\* C11, amended: as C11, but the first getZones call returns the list of the
\* first ListZones call when it is answered before a refresh has completed.
C11_FirstFetchDecidesUntilRefresh ==
    /\ FirstFetchFailed => wpc = "panicked"
    /\ wpc = "panicked" => NothingServed
    /\ (firstGot # <<>> /\ epoch = 0) => firstGot = initial

\* The first ListZones call returned the empty list without an error and a
\* caller has got the empty list before any refresh.
C11_Witness ==
    /\ initial = << <<>> >> /\ epoch = 0 /\ firstGot = initial
    /\ \E c \in DomainFilterCallers : gz[c].got = << <<>> >>

----------------------------------------------------------------------------
(* Records: properties *)

\* Records has returned without an error
RecordsOk == recResult # NoResult /\ recResult.fn = "Records" /\ ~recResult.err

\* A record that is translated: its FQDN is not empty and its TTL is an integer.
Translatable(r) == RecordDNSName(r) # <<>> /\ ParseInt(r.TTL).ok

Translated(rs) == SelectSeq(rs, Translatable)

KeyOf(r) == <<RecordDNSName(r), r.Type>>

EndpointKey(e) == <<e.DNSName, e.RecordType>>

\* The translated records of a listing that have the key k, in listing order.
WithKey(rs, k) == SelectSeq(Translated(rs), LAMBDA r : KeyOf(r) = k)

\* The place of the first translated record with the key k.
FirstAt(rs, k) ==
    LET T == Translated(rs)
    IN CHOOSE i \in DOMAIN T :
         KeyOf(T[i]) = k /\ \A j \in DOMAIN T : KeyOf(T[j]) = k => i <= j

\* The destination of a record as an endpoint carries it.
TargetOf(r) ==
    IF r.Type = "CNAME" THEN TrimRight(r.Destination, Dot) ELSE r.Destination

\* The endpoints returned are the listing grouped by key, with Dest(r) the
\* target a record r brings.
GroupedAs(Dest(_)) ==
    RecordsOk =>
      LET E == recResult.endpoints
          T == Translated(allRecords)
      IN /\ { EndpointKey(E[i]) : i \in DOMAIN E } = { KeyOf(T[j]) : j \in DOMAIN T }
         /\ \A i, j \in DOMAIN E :
              i < j => /\ EndpointKey(E[i]) # EndpointKey(E[j])
                       /\ FirstAt(allRecords, EndpointKey(E[i]))
                            < FirstAt(allRecords, EndpointKey(E[j]))
         /\ \A i \in DOMAIN E :
              LET W == WithKey(allRecords, EndpointKey(E[i]))
              IN /\ E[i].Targets = [n \in 1..Len(W) |-> Dest(W[n])]
                 /\ E[i].RecordTTL = ParseInt(W[1].TTL).val
         /\ Len(E) <= Len(allRecords)

\* C12: Records returns one endpoint per (dnsName, recordType) of the
\* translated records, in the order of first appearance; the targets of an
\* endpoint are the destinations of the records with its key in listing
\* order, its TTL is that of the first of them, and there are no more
\* endpoints than records.
C12_GroupedByKey == GroupedAs(LAMBDA r : r.Destination)

\* C12, amended: as C12, with the destination of a CNAME record taken
\* without its trailing dots.
C12_GroupedByKeyTrimmed == GroupedAs(TargetOf)

\* Records has returned the six records of two zones as four endpoints: the
\* two A records of a.z, which are apart in the listing, the CNAME without
\* its dots, and the records of y.z from both zones.
C12_Witness ==
    /\ RecordsOk
    /\ Len(allRecords) = 6
    /\ Len(recResult.endpoints) = 4
    /\ recResult.endpoints[1].Targets = << <<"1">>, <<"2">> >>
    /\ recResult.endpoints[1].RecordTTL = 300
    /\ recResult.endpoints[2].Targets = << <<"t">> >>
    /\ recResult.endpoints[4].Targets = << <<"8">>, <<"9">> >>

\* C13: when a ListRecords call of Records fails, Records returns an error
\* and no endpoints, whatever was listed before.
C13_ListingFailureNoEndpoints ==
    (recResult # NoResult /\ recResult.fn = "Records") =>
      /\ recResult.err <=> \E i \in DOMAIN listLog : ~listLog[i].ok
      /\ recResult.err => recResult.endpoints = <<>>

\* Records has returned an error after the records of the first zone were
\* listed and the listing of the second zone failed.
C13_Witness ==
    /\ recResult # NoResult /\ recResult.fn = "Records" /\ recResult.err
    /\ Len(listLog) = 2 /\ listLog[1].ok /\ ~listLog[2].ok
    /\ allRecords # <<>>

RECURSIVE TotalTargets(_)
TotalTargets(E) ==
    IF E = <<>> THEN 0 ELSE Len(Head(E).Targets) + TotalTargets(Tail(E))

\* C14: when all listings succeed Records reports no error; a record with
\* a TTL that is no integer or with an empty FQDN brings no target, and
\* every other record of the listing brings its target to the endpoint of
\* its key.
C14_BadRecordsSkipped ==
    (recResult # NoResult /\ recResult.fn = "Records"
       /\ \A i \in DOMAIN listLog : listLog[i].ok) =>
      LET E == recResult.endpoints IN
      /\ ~recResult.err
      /\ \A i \in DOMAIN allRecords :
           Translatable(allRecords[i]) =>
             \E k \in DOMAIN E :
               /\ EndpointKey(E[k]) = KeyOf(allRecords[i])
               /\ \E n \in DOMAIN E[k].Targets :
                    E[k].Targets[n] = TargetOf(allRecords[i])
      /\ \A k \in DOMAIN E : \A n \in DOMAIN E[k].Targets :
           \E i \in DOMAIN allRecords :
             /\ Translatable(allRecords[i])
             /\ EndpointKey(E[k]) = KeyOf(allRecords[i])
             /\ E[k].Targets[n] = TargetOf(allRecords[i])
      /\ TotalTargets(E) = Len(Translated(allRecords))

\* Records has returned without an error from a listing that holds a record
\* with a TTL that is no integer and a record with an empty FQDN, and has
\* returned the other records.
C14_Witness ==
    /\ RecordsOk
    /\ \E i \in DOMAIN allRecords : ~ParseInt(allRecords[i].TTL).ok
    /\ \E i \in DOMAIN allRecords : RecordDNSName(allRecords[i]) = <<>>
    /\ Len(allRecords) = 6
    /\ Len(recResult.endpoints) = 2
    /\ TotalTargets(recResult.endpoints) = 2

----------------------------------------------------------------------------
(* tidyfyName, restrictTTL and the conversions: properties *)

\* C15: an endpoint with one target whose dnsName is mapped to a zone,
\* turned into a record by createRecord and turned back by parseTidyRecord,
\* is an endpoint of the same dnsName and recordType with the clamped TTL.
C15_RoundTrip ==
    (/\ pres # NoResult /\ pres.fn = "parseTidyRecord"
     /\ Len(parg.endpoint.Targets) = 1
     /\ tidyfyName(parg.zones, parg.endpoint.DNSName).name # <<>>) =>
      /\ Len(pres.parsed) = 1
      /\ pres.parsed[1] # <<>>
      /\ pres.parsed[1][1].DNSName = parg.endpoint.DNSName
      /\ pres.parsed[1][1].RecordType = parg.endpoint.RecordType
      /\ pres.parsed[1][1].RecordTTL =
           (IF parg.endpoint.RecordTTL = 0 \/ parg.endpoint.RecordTTL >= 300
            THEN parg.endpoint.RecordTTL ELSE 300)

\* The zones of a list whose name the FQDN f ends with.
Matching(zs, f) == { i \in DOMAIN zs : HasSuffix(f, zs[i].Name) }

\* f without the zone name z at its end and without the dot before it.
Stripped(f, z) ==
    LET rest == SubSeq(f, 1, Len(f) - Len(z))
    IN IF rest # <<>> /\ rest[Len(rest)] = Dot
       THEN SubSeq(rest, 1, Len(rest) - 1) ELSE rest

\* C16: tidyfyName returns (".", zone id) when the FQDN is the name of a
\* zone, (FQDN without zone name and dot, zone id) when the FQDN ends with
\* the name of a zone, and ("", "0") exactly when it ends with the name of
\* no zone; the empty name comes only with the zone id "0".
C16_TidyfyName ==
    Called("tidyfyName") =>
      LET zs == parg.zones
          f == parg.name
          M == Matching(zs, f)
          Equal == { i \in DOMAIN zs : zs[i].Name = f }
      IN /\ Equal # {} =>
              \E i \in Equal : pres.name = <<Dot>> /\ pres.zoneID = zs[i].ID
         /\ (M # {} /\ Equal = {}) =>
              \E i \in M : /\ pres.name = Stripped(f, zs[i].Name)
                           /\ pres.zoneID = zs[i].ID
         /\ (pres.name = <<>> /\ pres.zoneID = "0") <=> M = {}
         /\ pres.name = <<>> => pres.zoneID = "0"

\* C16, amended: the first zone of the list whose name the FQDN ends with
\* decides: tidyfyName returns (".", its id) when the FQDN is its name and
\* (FQDN without zone name and dot, its id) otherwise, and ("", "0") exactly
\* when the FQDN ends with the name of no zone; the empty name comes with
\* the zone id "0" or for an FQDN that is a dot and the name of the zone.
C16_TidyfyNameFirstZone ==
    Called("tidyfyName") =>
      LET zs == parg.zones
          f == parg.name
          M == Matching(zs, f)
      IN /\ M # {} =>
              LET first == CHOOSE i \in M : \A j \in M : i <= j IN
              /\ pres.zoneID = zs[first].ID
              /\ pres.name = IF f = zs[first].Name THEN <<Dot>>
                             ELSE Stripped(f, zs[first].Name)
         /\ (pres.name = <<>> /\ pres.zoneID = "0") <=> M = {}
         /\ pres.name = <<>> =>
              \/ pres.zoneID = "0"
              \/ \E i \in DOMAIN zs :
                   f = <<Dot>> \o zs[i].Name /\ pres.zoneID = zs[i].ID

\* tidyfyName has been called with the zones z and y.z, in this order, on
\* the name y.z and has returned the name y in the zone z.
C16_Witness ==
    /\ Called("tidyfyName")
    /\ parg.zones = <<Z1, Z2>>
    /\ parg.name = Z2.Name
    /\ pres.name = <<"y">> /\ pres.zoneID = "1"

\* C18: restrictTTL returns t for t = 0 and for t >= 300, and 300 for every
\* other t; the TTL of every record createRecord submits is 0 or at least 300.
C18_ClampTTL ==
    /\ Called("restrictTTL") =>
         pres.ttl = IF parg.ttl = 0 \/ parg.ttl >= 300 THEN parg.ttl ELSE 300
    /\ (pres # NoResult /\ pres.fn = "createRecord") =>
         \A i \in DOMAIN pres.records :
           /\ ParseInt(pres.records[i].TTL).ok
           /\ \/ ParseInt(pres.records[i].TTL).val = 0
              \/ ParseInt(pres.records[i].TTL).val >= 300

\* restrictTTL has been called with 299 and has returned 300.
C18_Witness == Called("restrictTTL") /\ parg.ttl = 299 /\ pres.ttl = 300

----------------------------------------------------------------------------
(* ApplyChanges: the calls made for an endpoint *)

\* The record info createRecord has to send for the target at index i of
\* the endpoint e, which tidyfyName maps to the name n.
ExpectedInfo(e, n, i) ==
    [Type |-> e.RecordType,
     Name |-> n,
     Description |-> <<>>,
     Destination |-> IF e.RecordType = "CNAME"
                     THEN Trim(e.Targets[i], Quote) \o <<Dot>>
                     ELSE Trim(e.Targets[i], Quote),
     TTL |-> Itoa(IF e.RecordTTL = 0 \/ e.RecordTTL >= 300
                  THEN e.RecordTTL ELSE 300)]

\* C17: when no CreateRecord call fails, the task of an endpoint to create
\* with n targets that is mapped to a zone makes exactly n CreateRecord
\* calls to that zone, in the order of the targets, each with the
\* zone-relative name, the type, the clamped TTL and the target without its
\* quotes, with a "." appended for CNAME, and with nothing else.
C17_OneCreatePerTarget ==
    \A t \in DOMAIN tasks :
      LET e == tasks[t].ep
          tn == tidyfyName(azones, e.DNSName)
      IN (IsCreate(t) /\ tasks[t].done /\ ~Failed(t) /\ tn.name # <<>>) =>
           /\ Len(tasks[t].log) = Len(e.Targets)
           /\ \A i \in DOMAIN tasks[t].log :
                /\ tasks[t].log[i].op = "create"
                /\ tasks[t].log[i].zoneID = tn.zoneID
                /\ tasks[t].log[i].rec = ExpectedInfo(e, tn.name, i)

\* The tasks of the endpoint with two targets and a TTL of 60 and of the
\* endpoint with a quoted text have ended, every call of theirs succeeded.
C17_Witness ==
    \E t, u \in DOMAIN tasks :
      /\ IsCreate(t) /\ tasks[t].ep = EN /\ tasks[t].done /\ ~Failed(t)
      /\ Len(tasks[t].log) = 2
      /\ tasks[t].log[2].rec.Destination = <<"4">>
      /\ tasks[t].log[2].rec.TTL = <<"3", "0", "0">>
      /\ IsCreate(u) /\ tasks[u].ep = ET /\ tasks[u].done /\ ~Failed(u)
      /\ Len(tasks[u].log) = 1
      /\ tasks[u].log[1].rec.Destination = <<"q">>

\* C19: the DeleteRecord calls for the updateOld endpoints are made one
\* endpoint after the other in the order of the list, and all of them are
\* over before a createRecord for an updateNew endpoint begins.
C19_UpdateOldBeforeUpdateNew ==
    /\ \A t, u \in DOMAIN tasks :
         (tasks[t].kind = "updateOld" /\ tasks[u].kind = "updateOld" /\ t < u
            /\ (tasks[u].log # <<>> \/ tasks[u].done)) => tasks[t].done
    /\ \A t, u \in DOMAIN tasks :
         (tasks[t].kind = "updateOld" /\ tasks[u].kind = "updateNew") =>
           tasks[t].done

\* Both updateOld endpoints have had their records deleted and a
\* CreateRecord call for an updateNew endpoint has been made.
C19_Witness ==
    /\ \E u \in DOMAIN tasks :
         tasks[u].kind = "updateNew" /\ tasks[u].log # <<>>
    /\ \E t1, t2 \in DOMAIN tasks :
         /\ t1 < t2
         /\ tasks[t1].kind = "updateOld" /\ Len(tasks[t1].log) = 2
         /\ tasks[t2].kind = "updateOld" /\ Len(tasks[t2].log) = 1

\* No record of the records fetched has the name and type of the endpoint
\* of the task t and a target of it as its destination.
NothingMatches(t) ==
    \A i \in DOMAIN allRecords : \A k \in DOMAIN tasks[t].ep.Targets :
      ~(/\ FQDN(allRecords[i]) = tasks[t].ep.DNSName
        /\ allRecords[i].Type = tasks[t].ep.RecordType
        /\ allRecords[i].Destination = tasks[t].ep.Targets[k])

\* C20: for an endpoint to delete that no fetched record matches, no
\* DeleteRecord call is made, and ApplyChanges returns no error.
C20_NoMatchNoDelete ==
    \A t \in DOMAIN tasks :
      (IsDelete(t) /\ NothingMatches(t)) =>
        /\ tasks[t].log = <<>>
        /\ Returned => ~retErr

\* ApplyChanges has returned; the CNAME endpoint to delete, whose target
\* is the destination of no record, has been gone through without a call,
\* though the records fetched hold a CNAME record of its name.
C20_Witness ==
    /\ Returned /\ ~retErr
    /\ \E t \in DOMAIN tasks :
         /\ tasks[t].kind = "delete" /\ tasks[t].ep = EC
         /\ tasks[t].done /\ tasks[t].log = <<>>
         /\ NothingMatches(t)
    /\ \E i \in DOMAIN allRecords :
         FQDN(allRecords[i]) = EC.DNSName /\ allRecords[i].Type = "CNAME"

----------------------------------------------------------------------------
(* AdjustEndpoints: properties *)

\* The ASCII form of the names that are adjusted: "A.z" is "a.z", the name
\* of the label UUml is "xn--tda.z", that of "a" UUml is "xn--a-eha.z", and
\* the names "a.z" and "xn--tda.z" are in ASCII form already.
ASCIIForm(n) ==
    CASE n = <<"A", Dot, "z">> -> <<"a", Dot, "z">>
      [] n = <<UUml, Dot, "z">> ->
           <<"x", "n", "-", "-", "t", "d", "a", Dot, "z">>
      [] n = <<"a", UUml, Dot, "z">> ->
           <<"x", "n", "-", "-", "a", "-", "e", "h", "a", Dot, "z">>
      [] OTHER -> n

\* C21: AdjustEndpoints returns the endpoints it was given, in their
\* order, each with the clamped TTL, without labels and with its dnsName in
\* ASCII form; type and targets are as they were, no call to Tidy is made
\* and no error is returned.
C21_AdjustEndpoints ==
    Called("AdjustEndpoints") =>
      /\ ~pres.err
      /\ Len(pres.endpoints) = Len(parg.endpoints)
      /\ \A i \in DOMAIN parg.endpoints :
           LET old == parg.endpoints[i]
               new == pres.endpoints[i]
           IN /\ new.RecordTTL = IF old.RecordTTL = 0 \/ old.RecordTTL >= 300
                                 THEN old.RecordTTL ELSE 300
              /\ new.Labels = {}
              /\ new.DNSName = ASCIIForm(old.DNSName)
              /\ new.RecordType = old.RecordType
              /\ new.Targets = old.Targets
      /\ db = InitRecords /\ listLog = <<>> /\ tasks = <<>>

\* AdjustEndpoints has been given an address endpoint of a name with UUml
\* and a text endpoint, both with labels and a TTL of 100.
C21_Witness ==
    /\ Called("AdjustEndpoints")
    /\ Len(parg.endpoints) = 2
    /\ parg.endpoints[1].DNSName = <<UUml, Dot, "z">>
    /\ parg.endpoints[1].Labels # {} /\ parg.endpoints[1].RecordTTL = 100
    /\ parg.endpoints[2].RecordType = "TXT"
    /\ parg.endpoints[2].Labels # {}
    /\ pres.endpoints[1].RecordTTL = 300
    /\ pres.endpoints[2].Targets = << <<Quote, "q", Quote>> >>

----------------------------------------------------------------------------
(* ApplyChanges: endpoints of no zone, errors, and the records deleted *)

\* The dnsName of the endpoint of the task t ends with the name of no zone
\* of the zone list the endpoints to create are mapped with.
Unmapped(t) ==
    \A i \in DOMAIN azones : ~HasSuffix(tasks[t].ep.DNSName, azones[i].Name)

ListingFailed == \E i \in DOMAIN listLog : ~listLog[i].ok

\* Every endpoint of the change-set has its task, and every task other than
\* t has ended and has made a call if it had one to make.
OthersProcessed(t) ==
    /\ Len(tasks) = Len(changes.Create) + Len(changes.Delete)
                      + Len(changes.UpdateOld) + Len(changes.UpdateNew)
    /\ \A u \in DOMAIN tasks \ { t } :
         tasks[u].done /\ (Work(u) > 0 => tasks[u].log # <<>>)

\* C22: for an endpoint to create whose dnsName ends with the name of no
\* zone, no CreateRecord call is made; the other endpoints of the
\* change-set are processed and ApplyChanges returns no error.
C22_UnmappedSkipped ==
    \A t \in DOMAIN tasks :
      (IsCreate(t) /\ Unmapped(t)) =>
        /\ tasks[t].log = <<>>
        /\ Returned => (~retErr /\ OthersProcessed(t))

\* C22, amended: as C22, where the other endpoints are processed and no
\* error is returned when no ListRecords call of the pre-fetch has failed.
C22_UnmappedSkippedListingOk ==
    \A t \in DOMAIN tasks :
      (IsCreate(t) /\ Unmapped(t)) =>
        /\ tasks[t].log = <<>>
        /\ (Returned /\ ~ListingFailed) => (~retErr /\ OthersProcessed(t))

\* ApplyChanges has returned nil; the endpoint x.w, of no zone, was passed
\* over, and a CreateRecord call was made for the CNAME endpoint after it.
C22_Witness ==
    /\ Returned /\ ~retErr /\ azones # <<>>
    /\ \E t, u \in DOMAIN tasks :
         /\ t < u
         /\ tasks[t].kind = "create" /\ tasks[t].ep = EX
         /\ Unmapped(t) /\ tasks[t].done /\ tasks[t].log = <<>>
         /\ tasks[u].kind = "create" /\ tasks[u].ep = EC
         /\ tasks[u].log # <<>>

\* C23: when an endpoint has been created, every CreateRecord call
\* succeeding, and Tidy lists the records as they were sent, an ApplyChanges
\* with the same endpoint to delete, without a failure, deletes every
\* record that was created for it.
C23_CreateThenDelete ==
    (pres # NoResult /\ pres.fn = "deleteEndpoint") =>
      \A i \in DOMAIN pres.created :
        \E k \in DOMAIN pres.deleted : pres.deleted[k] = pres.created[i].ID

\* C24: when ApplyChanges returns an error, no CreateRecord and no
\* DeleteRecord call is made by it, before the return or after it.
C24_ErrorMeansNoCalls ==
    (Returned /\ retErr) => \A t \in DOMAIN tasks : tasks[t].log = <<>>

\* The ids of the records the CreateRecord calls of the invocation created.
CreatedIDs ==
    { FreshID(t, i) : t \in DOMAIN tasks, i \in 1..2 } \cap
    { r.ID : r \in db \cup Range(allRecords) }

\* The calls of the tasks that are DeleteRecord calls.
DeleteCalls ==
    { <<t, i>> \in (DOMAIN tasks) \X (1..6) :
        i \in DOMAIN tasks[t].log /\ tasks[t].log[i].op = "delete" }

\* C25: the records fetched for the deletions hold no record that a
\* CreateRecord call of the same ApplyChanges has created, and no
\* DeleteRecord call names such a record.
C25_SnapshotWithoutOwnRecords ==
    /\ \A i \in DOMAIN allRecords : allRecords[i].ID \notin CreatedIDs
    /\ \A c \in DeleteCalls : tasks[c[1]].log[c[2]].id \notin CreatedIDs

\* C26: every DeleteRecord call names a record of the records fetched, with
\* the zone id of that record; the record has the name and type of the
\* endpoint to delete the call is made for and one of its targets as its
\* destination; and no other record of Tidy is deleted.
C26_OnlyRequestedDeleted ==
    /\ \A c \in DeleteCalls :
         LET t == c[1]
             call == tasks[t].log[c[2]]
         IN /\ IsDelete(t)
            /\ tasks[t].ep \in Range(changes.Delete) \cup Range(changes.UpdateOld)
            /\ \E i \in DOMAIN allRecords :
                 /\ allRecords[i].ID = call.id
                 /\ allRecords[i].ZoneID = call.zoneID
                 /\ FQDN(allRecords[i]) = tasks[t].ep.DNSName
                 /\ allRecords[i].Type = tasks[t].ep.RecordType
                 /\ \E k \in DOMAIN tasks[t].ep.Targets :
                      allRecords[i].Destination = tasks[t].ep.Targets[k]
    /\ \A r \in InitRecords \ db :
         \E c \in DeleteCalls :
           tasks[c[1]].log[c[2]].id = r.ID /\ tasks[c[1]].log[c[2]].ok

\* The two records of a.z have been deleted for the endpoint a.z, each by
\* a call with its zone id, and the other records are in Tidy as before.
C26_Witness ==
    /\ \E t \in DOMAIN tasks :
         /\ IsDelete(t) /\ tasks[t].ep = EA /\ tasks[t].done
         /\ Len(tasks[t].log) = 2
         /\ \A i \in 1..2 : tasks[t].log[i].ok /\ tasks[t].log[i].zoneID = "1"
         /\ { tasks[t].log[i].id : i \in 1..2 } = { 1, 2 }
    /\ { r.ID : r \in InitRecords \ db } = { 1, 2 }

\* C27: within one ApplyChanges no two DeleteRecord calls name the same
\* record.
C27_DeleteAtMostOnce ==
    \A c, e \in DeleteCalls :
      tasks[c[1]].log[c[2]].id = tasks[e[1]].log[e[2]].id => c = e

----------------------------------------------------------------------------
(* tidyfyName: the zone of a name *)

\* C28: the zone tidyfyName chooses for the FQDN f of a record to create
\* has a name z with f = z or f ending with "." and z, and the FQDN of the
\* record created, its name with "." and z, or z for the name ".", is f.
C28_ZoneOfWholeLabels ==
    (Called("tidyfyName") /\ pres.name # <<>>) =>
      \E i \in DOMAIN parg.zones :
        LET z == parg.zones[i].Name IN
        /\ parg.zones[i].ID = pres.zoneID
        /\ parg.name = z \/ HasSuffix(parg.name, <<Dot>> \o z)
        /\ parg.name = IF pres.name = <<Dot>> THEN z
                       ELSE pres.name \o <<Dot>> \o z

----------------------------------------------------------------------------
(* The zone provider: the calls return, and in the order of the refreshes *)

\* The responder the worker is about to send on has room for the list.
WorkerSendsAtOnce ==
    (wpc = "select" /\ provider # <<>>) => responder[Head(provider)] = <<>>

\* C29: every getZones call that has begun returns, whatever the other
\* callers and the ticks do, when every ListZones call returns: no caller
\* stays inside a call for ever; and the worker never has to wait when it
\* sends a list to a caller.
C29_GetZonesReturns ==
    /\ \A c \in DomainFilterCallers : []<>(gz[c].pc = "idle")
    /\ []WorkerSendsAtOnce

\* Both callers have got a list, one of them from a call that began before
\* a refresh was over and was answered after it.
C29_Witness ==
    /\ \A c \in DomainFilterCallers : gz[c].pc = "idle" /\ gz[c].got # <<>>
    /\ \E c \in DomainFilterCallers : gz[c].startEpoch < gz[c].servedEpoch


\* The list of the call the caller c is in has been sent to it.
Answered(c) == gz[c].pc = "recv" /\ responder[c] # <<>>

\* C30: a getZones call that began after a call had returned the list
\* stored by refresh k returns the list stored by refresh k or by a later
\* one, never that of the first fetch or of an earlier refresh.
C30_ReadsNeverGoBack ==
    \A c \in DomainFilterCallers :
      Answered(c) => /\ gz[c].servedEpoch >= floor[c]
                     /\ floor[c] <= returnedEpoch

\* A call had returned the list of a refresh; a call that began after that,
\* before a further refresh was over, is answered after this refresh.
C30_Witness ==
    \E c \in DomainFilterCallers :
      /\ Answered(c)
      /\ floor[c] > 0
      /\ gz[c].startEpoch = floor[c]
      /\ gz[c].servedEpoch > floor[c]

====
